---- MODULE Spec2Model ----
(***************************************************************************)
(* Model of src/dashboard/dashboard.py: the Streamlit order-analysis       *)
(* dashboard.  The script loads five tables once (load_data, cached), and  *)
(* is re-executed from top to bottom on every widget interaction.  One     *)
(* run filters the orders by the selected date range, joins the order      *)
(* items to products, filtered orders, customers and category              *)
(* translations, counts line items per (city, english category), keeps     *)
(* the winning category of each city, ranks the cities and keeps ten.      *)
(*                                                                         *)
(* Data frames are sequences of records (one record per row, fields are    *)
(* the columns).  Identifiers, cities, category labels and dates are       *)
(* integers; the integer order of a label stands for its string order.     *)
(***************************************************************************)
EXTENDS Integers, Sequences, FiniteSets, TLC

\* pandas' missing value, produced by the unmatched rows of a left merge
NaN == 0

\* head(10) of the ranked cities
TopN == 10

\* ---------------------------------------------------------------------
\* Bounds of the input family
\* ---------------------------------------------------------------------
\* number of line items the input draws freely, ahead of the fixed ones
MaxItems == 2
\* number of additional cities that each have an order of their own
NumBulk == 10
\* the same as MaxItems, for the inputs on which reruns are compared
MaxProbeItems == 0

\* ---------------------------------------------------------------------
\* Generic helpers
\* ---------------------------------------------------------------------
Min(a, b) == IF a <= b THEN a ELSE b

Range(s) == {s[i] : i \in DOMAIN s}

RECURSIVE Concat(_)
Concat(ss) == IF ss = <<>> THEN <<>> ELSE Head(ss) \o Concat(Tail(ss))

\* sequences over S of length at most n
SeqsUpTo(S, n) == UNION {[1..k -> S] : k \in 0..n}

\* the elements of S in the order of their ranks 0, 1, ...
ByRank(S, rank) ==
  [g \in 1..Cardinality(S) |-> CHOOSE x \in S : rank[x] = g - 1]

\* the elements of a finite set of integers in ascending order
Ascending(S) == ByRank(S, [x \in S |-> Cardinality({y \in S : y < x})])

\* lexicographic order on pairs of integers
PairLess(p, q) == p[1] < q[1] \/ (p[1] = q[1] /\ p[2] < q[2])

\* the elements of a finite set of pairs in ascending order
AscendingPairs(S) ==
  ByRank(S, [x \in S |-> Cardinality({y \in S : PairLess(y, x)})])

\* ---------------------------------------------------------------------
\* The tables read by load_data
\* ---------------------------------------------------------------------
\* Orders 1 and 2 are bought on day 1 and order 3 on day 4, by customers
\* 1..3.  Order 4 is the only order of day 2 and its customer is not in the
\* customers table.  Nothing is bought on day 3.  Order 10+k belongs to
\* the k-th bulk city and is bought on day 1 or day 4.
OrdersTable ==
  << [order_id |-> 1, customer_id |-> 1, order_purchase_timestamp |-> 1],
     [order_id |-> 2, customer_id |-> 2, order_purchase_timestamp |-> 1],
     [order_id |-> 3, customer_id |-> 3, order_purchase_timestamp |-> 4],
     [order_id |-> 4, customer_id |-> 4, order_purchase_timestamp |-> 2] >>
  \o [k \in 1..NumBulk |->
        [order_id |-> 10 + k, customer_id |-> 10 + k,
         order_purchase_timestamp |-> IF k % 2 = 0 THEN 1 ELSE 4]]

\* customers 1 and 3 live in city 1, customer 2 in city 2
CustomersTable ==
  << [customer_id |-> 1, customer_city |-> 1],
     [customer_id |-> 2, customer_city |-> 2],
     [customer_id |-> 3, customer_city |-> 1] >>
  \o [k \in 1..NumBulk |-> [customer_id |-> 10 + k, customer_city |-> 2 + k]]

\* product 3 has no category, product 4 a category without translation,
\* product 5 is not listed at all
ProductsTable ==
  << [product_id |-> 1, product_category_name |-> 1],
     [product_id |-> 2, product_category_name |-> 2],
     [product_id |-> 3, product_category_name |-> NaN],
     [product_id |-> 4, product_category_name |-> 3] >>

\* the english label of category 1 sorts after the one of category 2
TranslationTable ==
  << [product_category_name |-> 1, product_category_name_english |-> 12],
     [product_category_name |-> 2, product_category_name_english |-> 11] >>

\* the line items every input has: three items of order 3, one of order 4,
\* one of an order the orders table does not list, and 1 + (k % 2) items
\* of one product in the order of the k-th bulk city
FixedItems ==
  << [order_id |-> 3, product_id |-> 1],
     [order_id |-> 3, product_id |-> 4],
     [order_id |-> 3, product_id |-> 5],
     [order_id |-> 4, product_id |-> 1],
     [order_id |-> 5, product_id |-> 2] >>
  \o Concat([k \in 1..NumBulk |->
        [j \in 1..(1 + (k % 2)) |->
           [order_id |-> 10 + k, product_id |-> 1 + (k % 2)]]])

\* the line items an input may add
ItemKinds ==
  { [order_id |-> 1, product_id |-> 1],
    [order_id |-> 1, product_id |-> 2],
    [order_id |-> 1, product_id |-> 3],
    [order_id |-> 2, product_id |-> 1] }

\* ---------------------------------------------------------------------
\* State
\* ---------------------------------------------------------------------
VARIABLES
  orders_df,                \* the tables returned by load_data
  customers_df,
  orders_items_df,
  products_df,
  product_category_name_translation_df,
  quicksort_ties,           \* how this build's quicksort orders equal keys
  selected_dates,           \* value of the date_input widget
  show_top_categories,      \* the "Show Top Categories Data" checkbox
  status,                   \* "ok": the run reached its end; "stopped": st.stop()
  filtered_orders,
  total_orders,
  total_cities,
  avg_orders_per_city,
  merged_df,
  city_category_counts,     \* top_category_per_city after line 90
  top_category_per_city,    \* top_category_per_city after line 93
  top_10_data,
  probe,                    \* a date range under observation
  probe_seen                \* the outputs of the runs with that range so far

tables == <<orders_df, customers_df, orders_items_df, products_df,
            product_category_name_translation_df, quicksort_ties>>

outputs == <<status, filtered_orders, total_orders, total_cities,
             avg_orders_per_city, merged_df, city_category_counts,
             top_category_per_city, top_10_data>>

vars == <<tables, selected_dates, show_top_categories, outputs,
          probe, probe_seen>>

\* ---------------------------------------------------------------------
\* pandas operations used by the script
\* ---------------------------------------------------------------------
\* df[col] as a sequence
Column(df, col) == [i \in 1..Len(df) |-> df[i][col]]

\* a left merge gives a left row without a match one row of missing values
OrMissing(values) == IF values = <<>> THEN <<NaN>> ELSE values

\* The values that left.merge(right, on=on, how='left') puts in column col
\* of the rows made from one left row with key value key: the col of every
\* matching right row, in right's order, or a missing value when no right
\* row matches
Matched(right, on, key, col) ==
  OrMissing(Column(SelectSeq(right, LAMBDA r : r[on] = key), col))

\* the rows of df at the positions pos assigns to them
Placed(df, pos) ==
  [p \in 1..Len(df) |-> df[CHOOSE i \in 1..Len(df) : pos[i] = p]]

\* df.sort_values with a stable sorter: before[i][j] tells whether the
\* sort keys of row i come strictly before those of row j, rows with equal
\* keys keep their order
StableSort(df, before) ==
  Placed(df, [i \in 1..Len(df) |-> 1 + Cardinality({j \in 1..Len(df) :
                \/ before[j][i]
                \/ (j < i /\ ~before[i][j])})])

\* the same with a sorter that leaves rows with equal keys in the
\* opposite order
ReversingSort(df, before) ==
  Placed(df, [i \in 1..Len(df) |-> 1 + Cardinality({j \in 1..Len(df) :
                \/ before[j][i]
                \/ (j > i /\ ~before[i][j])})])

\* ---------------------------------------------------------------------
\* The steps of one run of the script
\* ---------------------------------------------------------------------
\* lines 50-53: orders_df[(date >= start_date) & (date <= end_date)]
FilteredOrders(orders, start_date, end_date) ==
  SelectSeq(orders, LAMBDA o : /\ o.order_purchase_timestamp >= start_date
                               /\ o.order_purchase_timestamp <= end_date)

\* the rows a filtered order l gives orders_with_city, one per city in v
OrderCityRows(l, v) ==
  [k \in 1..Len(v) |->
     [order_id |-> l.order_id, customer_id |-> l.customer_id,
      order_purchase_timestamp |-> l.order_purchase_timestamp,
      customer_city |-> v[k]]]

\* line 66: filtered_orders.merge(customers_df, on='customer_id', how='left')
OrdersWithCity(forders, customers) ==
  Concat([i \in 1..Len(forders) |->
    OrderCityRows(forders[i],
      Matched(customers, "customer_id", forders[i].customer_id,
              "customer_city"))])

\* line 119: orders_with_city['customer_city'].nunique(), which does not
\* count the missing value
NUnique(df, column) ==
  Cardinality({df[i][column] : i \in 1..Len(df)} \ {NaN})

\* mutant of AvgOrdersPerCity: the division without its guard
AvgUnguarded(n_orders, n_cities) == [num |-> n_orders, den |-> n_cities]

\* line 123: total_orders / total_cities if total_cities > 0 else 0, the
\* quotient kept as numerator and denominator
AvgOrdersPerCity(n_orders, n_cities) ==
  IF n_cities > 0 THEN [num |-> n_orders, den |-> n_cities]
  ELSE [num |-> 0, den |-> 1]

\* the rows a line item l gives the first merge, one per category in v
ProductRows(l, v) ==
  [k \in 1..Len(v) |->
     [order_id |-> l.order_id, product_id |-> l.product_id,
      product_category_name |-> v[k]]]

\* line 83: orders_items_df.merge(products_df, on='product_id', how='left')
MergeProducts(items, products) ==
  Concat([i \in 1..Len(items) |->
    ProductRows(items[i],
      Matched(products, "product_id", items[i].product_id,
              "product_category_name"))])

\* the rows a row l gives the second merge, one per customer_id in v
OrderRows(l, v) ==
  [k \in 1..Len(v) |->
     [order_id |-> l.order_id, product_id |-> l.product_id,
      product_category_name |-> l.product_category_name,
      customer_id |-> v[k]]]

\* line 84: .merge(filtered_orders[['order_id', 'customer_id']],
\* on='order_id', how='left')
MergeOrders(df, forders) ==
  Concat([i \in 1..Len(df) |->
    OrderRows(df[i],
      Matched(forders, "order_id", df[i].order_id, "customer_id"))])

\* the rows a row l gives the third merge, one per city in v
CustomerRows(l, v) ==
  [k \in 1..Len(v) |->
     [order_id |-> l.order_id, product_id |-> l.product_id,
      product_category_name |-> l.product_category_name,
      customer_id |-> l.customer_id, customer_city |-> v[k]]]

\* line 85: .merge(customers_df[['customer_id', 'customer_city']],
\* on='customer_id', how='left')
MergeCustomers(df, customers) ==
  Concat([i \in 1..Len(df) |->
    CustomerRows(df[i],
      Matched(customers, "customer_id", df[i].customer_id,
              "customer_city"))])

\* the rows a row l gives the fourth merge, one per english label in v
TranslationRows(l, v) ==
  [k \in 1..Len(v) |->
     [order_id |-> l.order_id, product_id |-> l.product_id,
      product_category_name |-> l.product_category_name,
      customer_id |-> l.customer_id, customer_city |-> l.customer_city,
      product_category_name_english |-> v[k]]]

\* line 86: .merge(product_category_name_translation_df,
\* on='product_category_name', how='left')
MergeTranslation(df, translation) ==
  Concat([i \in 1..Len(df) |->
    TranslationRows(df[i],
      Matched(translation, "product_category_name",
              df[i].product_category_name,
              "product_category_name_english"))])

\* line 87: merged_df[['order_id', 'customer_city',
\* 'product_category_name_english']]
SelectColumns(df) ==
  [i \in 1..Len(df) |->
     [order_id |-> df[i].order_id, customer_city |-> df[i].customer_city,
      product_category_name_english |-> df[i].product_category_name_english]]

\* lines 83-87: the four merges and the column selection that build
\* merged_df
MergedDf(items, products, forders, customers, translation) ==
  SelectColumns(
    MergeTranslation(
      MergeCustomers(MergeOrders(MergeProducts(items, products), forders),
                     customers),
      translation))

\* mutant of GroupKeys: dropna=False, rows with a missing key form groups
GroupKeysKeepMissing(df) ==
  AscendingPairs(
    {<<df[i].customer_city, df[i].product_category_name_english>> :
       i \in 1..Len(df)})

\* mutant of GroupKeys: only rows without a category are dropped, rows
\* without a city form groups
GroupKeysKeepNoCity(df) ==
  AscendingPairs(
    {<<df[i].customer_city, df[i].product_category_name_english>> :
       i \in {j \in 1..Len(df) :
                df[j].product_category_name_english # NaN}})

\* the group keys of groupby([city, category]): the pairs of the rows in
\* which neither is missing (dropna=True), in ascending order (sort=True)
GroupKeys(df) ==
  AscendingPairs(
    {<<df[i].customer_city, df[i].product_category_name_english>> :
       i \in {j \in 1..Len(df) :
                /\ df[j].customer_city # NaN
                /\ df[j].product_category_name_english # NaN}})

\* mutant of GroupSize: nunique() in place of count(), distinct orders
GroupSizeDistinct(df, key) ==
  Cardinality({df[i].order_id : i \in {j \in 1..Len(df) :
     /\ df[j].customer_city = key[1]
     /\ df[j].product_category_name_english = key[2]
     /\ df[j].order_id # NaN}})

\* ['order_id'].count() of one group: its rows with an order_id
GroupSize(df, key) ==
  Cardinality({i \in 1..Len(df) :
     /\ df[i].customer_city = key[1]
     /\ df[i].product_category_name_english = key[2]
     /\ df[i].order_id # NaN})

\* .reset_index() and the rename: one row per group, labelled 0, 1, ...
CountRows(df, keys) ==
  [g \in 1..Len(keys) |->
     [index |-> g - 1,
      customer_city |-> keys[g][1],
      product_category_name_english |-> keys[g][2],
      total_orders |-> GroupSize(df, keys[g])]]

\* lines 89-90: groupby([city, category])['order_id'].count()
\* .reset_index() and the rename of the count to total_orders
GroupCount(df) == CountRows(df, GroupKeys(df))

\* the order of sort_values(by=[city, total_orders], ascending=[True, False])
CityTotalBefore(df) ==
  [i \in 1..Len(df) |-> [j \in 1..Len(df) |->
     \/ df[i].customer_city < df[j].customer_city
     \/ /\ df[i].customer_city = df[j].customer_city
        /\ df[i].total_orders > df[j].total_orders]]

\* line 91: a sort on two keys, for which pandas uses a stable sorter
SortCityTotal(df) == StableSort(df, CityTotalBefore(df))

\* mutant of FirstMax: the last row that holds the maximum
LastMax(df, group) ==
  df[CHOOSE i \in group : \A j \in group :
       /\ df[j].total_orders <= df[i].total_orders
       /\ (df[j].total_orders = df[i].total_orders => i >= j)].index

\* idxmax of one group: the label of its first row that holds the maximum
FirstMax(df, group) ==
  df[CHOOSE i \in group : \A j \in group :
       /\ df[j].total_orders <= df[i].total_orders
       /\ (df[j].total_orders = df[i].total_orders => i <= j)].index

\* idxmax of each of the groups cities
FirstMaxOfEach(df, cities) ==
  [k \in 1..Len(cities) |->
     FirstMax(df, {i \in 1..Len(df) : df[i].customer_city = cities[k]})]

\* mutant of IdxMax: idxmin, the label of the first row holding the minimum
IdxMin(df) ==
  [k \in 1..Cardinality({df[i].customer_city : i \in 1..Len(df)}) |->
     df[CHOOSE i \in 1..Len(df) :
          /\ Cardinality({df[j].customer_city : j \in 1..Len(df)}
                           \cap (0..df[i].customer_city)) = k
          /\ \A j \in 1..Len(df) :
               df[j].customer_city = df[i].customer_city =>
                 /\ df[j].total_orders >= df[i].total_orders
                 /\ (df[j].total_orders = df[i].total_orders => i <= j)].index]

\* line 92: groupby('customer_city')['total_orders'].idxmax(): per city,
\* in ascending city order, the label of the first row holding the maximum
IdxMax(df) ==
  FirstMaxOfEach(df, Ascending({df[i].customer_city : i \in 1..Len(df)}))

\* line 92: df.loc[labels]
Loc(df, labels) ==
  [k \in 1..Len(labels) |->
     df[CHOOSE i \in 1..Len(df) : df[i].index = labels[k]]]

\* line 92: top_category_per_city.loc[...groupby(...).idxmax()]
Winners(df) == Loc(df, IdxMax(df))

\* the order of sort_values(by='total_orders', ascending=False)
TotalBefore(df) ==
  [i \in 1..Len(df) |-> [j \in 1..Len(df) |->
     df[i].total_orders > df[j].total_orders]]

\* mutant of SortTotalDesc: ascending=True
SortTotalAsc(df, ties) ==
  IF ties = "keep"
  THEN StableSort(df, [i \in 1..Len(df) |-> [j \in 1..Len(df) |->
                         df[i].total_orders < df[j].total_orders]])
  ELSE ReversingSort(df, [i \in 1..Len(df) |-> [j \in 1..Len(df) |->
                            df[i].total_orders < df[j].total_orders]])

\* line 93: a sort on a single key, done by the default quicksort, which
\* may leave rows of equal total in their order or not
SortTotalDesc(df, ties) ==
  IF ties = "keep" THEN StableSort(df, TotalBefore(df))
  ELSE ReversingSort(df, TotalBefore(df))

\* lines 91-93: top_category_per_city after its last assignment
TopCategoryPerCity(counts, ties) ==
  SortTotalDesc(Winners(SortCityTotal(counts)), ties)

\* mutant of Top10Cities: head(10) left out
AllRankedCities(df) == [i \in 1..Len(df) |-> df[i].customer_city]

\* line 96: top_category_per_city['customer_city'].head(10)
Top10Cities(df) ==
  [i \in 1..Min(TopN, Len(df)) |-> df[i].customer_city]

\* the rows of df whose city is among cities
IsIn(df, cities) == SelectSeq(df, LAMBDA r : r.customer_city \in cities)

\* mutant of Top10Data: tail(10) in place of head(10)
Bottom10Data(df) ==
  IsIn(df, {df[i].customer_city : i \in (Len(df) - Min(TopN, Len(df)) + 1)..Len(df)})

\* line 97: top_category_per_city[customer_city.isin(top_10_cities)]
Top10Data(df) == IsIn(df, Range(Top10Cities(df)))

\* line 32: orders_df['order_purchase_timestamp'].dt.date.min()
min_date ==
  CHOOSE d \in {orders_df[i].order_purchase_timestamp : i \in 1..Len(orders_df)} :
    \A i \in 1..Len(orders_df) : d <= orders_df[i].order_purchase_timestamp

\* line 33: orders_df['order_purchase_timestamp'].dt.date.max()
max_date ==
  CHOOSE d \in {orders_df[i].order_purchase_timestamp : i \in 1..Len(orders_df)} :
    \A i \in 1..Len(orders_df) : d >= orders_df[i].order_purchase_timestamp

\* what the date_input widget can return: a range inside
\* [min_date, max_date], or the start date alone while the range is
\* being picked
DateSelections ==
  {r \in (min_date..max_date) \X (min_date..max_date) : r[1] <= r[2]}
    \cup {<<d>> : d \in min_date..max_date}

\* ---------------------------------------------------------------------
\* One execution of the script body (lines 43-124) on the loaded tables
\* ---------------------------------------------------------------------
\* lines 43-45: st.error(...); st.stop(): nothing below is executed
Stopped ==
  [status |-> "stopped", filtered_orders |-> <<>>, total_orders |-> 0,
   total_cities |-> 0, avg_orders_per_city |-> [num |-> 0, den |-> 1],
   merged_df |-> <<>>, city_category_counts |-> <<>>,
   top_category_per_city |-> <<>>, top_10_data |-> <<>>]

\* lines 96-124: the ten cities and the key metrics
Finish(fo, ncity, m, counts, tcpc) ==
  [status |-> "ok", filtered_orders |-> fo, total_orders |-> Len(fo),
   total_cities |-> ncity,
   avg_orders_per_city |-> AvgOrdersPerCity(Len(fo), ncity),
   merged_df |-> m, city_category_counts |-> counts,
   top_category_per_city |-> tcpc, top_10_data |-> Top10Data(tcpc)]

\* lines 91-93 on the counts of lines 89-90
Rank(fo, ncity, m, counts, ties) ==
  Finish(fo, ncity, m, counts, TopCategoryPerCity(counts, ties))

\* lines 89-90 on merged_df
Count(fo, ncity, m, ties) == Rank(fo, ncity, m, GroupCount(m), ties)

\* lines 66-87 on filtered_orders
Aggregate(fo, customers, items, products, translation, ties) ==
  Count(fo, NUnique(OrdersWithCity(fo, customers), "customer_city"),
        MergedDf(items, products, fo, customers, translation), ties)

ScriptRun(sel, orders, customers, items, products, translation, ties) ==
  IF Len(sel) # 2 THEN Stopped
  ELSE Aggregate(FilteredOrders(orders, sel[1], sel[2]),
                 customers, items, products, translation, ties)

\* the outputs of a run become the state
Publish(r) ==
  /\ status' = r.status
  /\ filtered_orders' = r.filtered_orders
  /\ total_orders' = r.total_orders
  /\ total_cities' = r.total_cities
  /\ avg_orders_per_city' = r.avg_orders_per_city
  /\ merged_df' = r.merged_df
  /\ city_category_counts' = r.city_category_counts
  /\ top_category_per_city' = r.top_category_per_city
  /\ top_10_data' = r.top_10_data

\* mutant of Script: the date filter is applied to what the previous run
\* left of the orders, as if the cached table were filtered in place
ScriptCarry(sel) ==
  \E r \in {ScriptRun(sel,
                      IF status = "ok" THEN filtered_orders ELSE orders_df,
                      customers_df, orders_items_df,
                      products_df, product_category_name_translation_df,
                      quicksort_ties)} :
     /\ selected_dates' = sel
     /\ Publish(r)
     /\ probe_seen' = IF r.status = "ok" /\ sel = probe
                      THEN probe_seen \cup {r.top_10_data}
                      ELSE probe_seen
     /\ UNCHANGED <<tables, probe>>

\* a rerun of the whole script with the widget value sel: load_data
\* returns the cached tables, everything else is computed afresh
Script(sel) ==
  \E r \in {ScriptRun(sel, orders_df, customers_df, orders_items_df,
                      products_df, product_category_name_translation_df,
                      quicksort_ties)} :
     /\ selected_dates' = sel
     /\ Publish(r)
     /\ probe_seen' = IF r.status = "ok" /\ sel = probe
                      THEN probe_seen \cup {r.top_10_data}
                      ELSE probe_seen
     /\ UNCHANGED <<tables, probe>>

\* load_data reads the files: the fixed tables, and up to n line items
\* ahead of the fixed ones
Loaded(n) ==
  /\ orders_df = OrdersTable
  /\ customers_df = CustomersTable
  /\ products_df = ProductsTable
  /\ product_category_name_translation_df = TranslationTable
  /\ \E extra \in SeqsUpTo(ItemKinds, n) :
       orders_items_df = extra \o FixedItems
  /\ quicksort_ties \in {"keep", "reverse"}

\* the first run: the date_input shows its default value
\* (min_date, max_date), the checkbox is not ticked
FirstRun ==
  /\ selected_dates = <<min_date, max_date>>
  /\ show_top_categories = FALSE
  /\ \E r \in {ScriptRun(selected_dates, orders_df, customers_df,
                         orders_items_df, products_df,
                         product_category_name_translation_df,
                         quicksort_ties)} :
        /\ status = r.status
        /\ filtered_orders = r.filtered_orders
        /\ total_orders = r.total_orders
        /\ total_cities = r.total_cities
        /\ avg_orders_per_city = r.avg_orders_per_city
        /\ merged_df = r.merged_df
        /\ city_category_counts = r.city_category_counts
        /\ top_category_per_city = r.top_category_per_city
        /\ top_10_data = r.top_10_data
        /\ probe_seen = IF selected_dates = probe
                        THEN {r.top_10_data} ELSE {}

\* the state after the first run; the date range of the first run is the
\* one under observation
Init ==
  /\ Loaded(MaxItems)
  /\ probe = <<min_date, max_date>>
  /\ FirstRun

\* the same, with any date range under observation
InitProbe ==
  /\ Loaded(MaxProbeItems)
  /\ probe \in {r \in DateSelections : Len(r) = 2}
  /\ FirstRun

\* the user changes the date range (or starts picking one)
SelectDates ==
  \E sel \in DateSelections :
    /\ sel # selected_dates
    /\ Script(sel)
    /\ UNCHANGED show_top_categories

\* the user ticks or unticks "Show Top Categories Data"
ToggleTopCategories ==
  /\ show_top_categories' = ~show_top_categories
  /\ Script(selected_dates)

Next == SelectDates \/ ToggleTopCategories

Spec == Init /\ [][Next]_vars

SpecProbe == InitProbe /\ [][Next]_vars

\* ---------------------------------------------------------------------
\* Vocabulary of the properties
\* ---------------------------------------------------------------------
Rows(df) == 1..Len(df)

\* the cities that have at least one counted (city, category) row
CountedCities == {city_category_counts[g].customer_city :
                    g \in Rows(city_category_counts)}

\* the count rows of one city
CountsOf(city) == {g \in Rows(city_category_counts) :
                     city_category_counts[g].customer_city = city}

\* the sum of total_orders over a set of count rows
RECURSIVE SumTotals(_)
SumTotals(G) ==
  IF G = {} THEN 0
  ELSE LET g == CHOOSE x \in G : TRUE
       IN city_category_counts[g].total_orders + SumTotals(G \ {g})

\* the cities of the output
OutputCities == {top_10_data[i].customer_city : i \in Rows(top_10_data)}

\* line item i is bought in an order of the selected date range whose
\* customer lives in city, and its product has the english category cat
Contributes(i, city, cat) ==
  /\ \E o \in Rows(orders_df) :
       /\ orders_df[o].order_id = orders_items_df[i].order_id
       /\ orders_df[o].order_purchase_timestamp >= selected_dates[1]
       /\ orders_df[o].order_purchase_timestamp <= selected_dates[2]
       /\ \E c \in Rows(customers_df) :
            /\ customers_df[c].customer_id = orders_df[o].customer_id
            /\ customers_df[c].customer_city = city
  /\ \E q \in Rows(products_df) :
       /\ products_df[q].product_id = orders_items_df[i].product_id
       /\ \E t \in Rows(product_category_name_translation_df) :
            /\ product_category_name_translation_df[t].product_category_name
                 = products_df[q].product_category_name
            /\ product_category_name_translation_df[t].product_category_name_english
                 = cat

AllCities == {customers_df[c].customer_city : c \in Rows(customers_df)}

AllLabels ==
  {product_category_name_translation_df[t].product_category_name_english :
     t \in Rows(product_category_name_translation_df)}

\* the rows of merged_df that have a city but no english category
UnlabelledRows(city) ==
  {i \in Rows(merged_df) :
     /\ merged_df[i].customer_city = city
     /\ merged_df[i].product_category_name_english = NaN}

\* position in merged_df of the first line item of a (city, category) pair
FirstLine(city, cat) ==
  CHOOSE i \in Rows(merged_df) :
    /\ merged_df[i].customer_city = city
    /\ merged_df[i].product_category_name_english = cat
    /\ \A j \in Rows(merged_df) :
         (/\ merged_df[j].customer_city = city
          /\ merged_df[j].product_category_name_english = cat) => i <= j

\* the count rows of the city of output row r that tie with r
Tied(r) == {g \in CountsOf(r.customer_city) :
              city_category_counts[g].total_orders = r.total_orders}

\* ---------------------------------------------------------------------
\* Properties
\* ---------------------------------------------------------------------
\* C1: whatever the tables and the date range, top_10_data has at most 10
\* rows and no city appears in more than one of them.
C1_AtMostTenDistinctCities ==
  status = "ok" =>
    /\ Len(top_10_data) <= 10
    /\ \A i, j \in Rows(top_10_data) :
         top_10_data[i].customer_city = top_10_data[j].customer_city => i = j

\* C1 witness: more than ten cities were ranked and ten of them are shown
C1_Witness ==
  /\ status = "ok"
  /\ Len(top_category_per_city) > 10
  /\ Len(top_10_data) = 10

\* C2: the category reported for a city of the output is one of the
\* counted categories of that city, and no category of that city has a
\* strictly greater count than the reported total_orders.
C2_ReportedCategoryIsMaximal ==
  status = "ok" =>
    \A i \in Rows(top_10_data) :
      /\ \E g \in CountsOf(top_10_data[i].customer_city) :
           /\ city_category_counts[g].product_category_name_english
                = top_10_data[i].product_category_name_english
           /\ city_category_counts[g].total_orders = top_10_data[i].total_orders
      /\ \A g \in CountsOf(top_10_data[i].customer_city) :
           city_category_counts[g].total_orders <= top_10_data[i].total_orders

\* C2 witness: an output city has a second category with a smaller count
C2_Witness ==
  /\ status = "ok"
  /\ \E i \in Rows(top_10_data) :
       \E g \in CountsOf(top_10_data[i].customer_city) :
         city_category_counts[g].total_orders < top_10_data[i].total_orders

\* C3 as stated: a line item that has a city but no english category
\* (product without category, category without translation) is counted
\* for its city under the undefined label.
C3_UnlabelledItemsCounted ==
  status = "ok" =>
    \A city \in AllCities :
      UnlabelledRows(city) # {} =>
        \E g \in CountsOf(city) :
          /\ city_category_counts[g].product_category_name_english = NaN
          /\ city_category_counts[g].total_orders
               = Cardinality(UnlabelledRows(city))

\* C3 as amended: the joins keep such a line item in merged_df with an
\* undefined label, but the grouping discards it: no count row carries
\* the undefined label, and the counts of a city add up to the number of
\* its line items that do have an english category.
C3_UnlabelledItemsDiscarded ==
  status = "ok" =>
    /\ Len(merged_df) = Len(orders_items_df)
    /\ \A g \in Rows(city_category_counts) :
         city_category_counts[g].product_category_name_english # NaN
    /\ \A city \in AllCities :
         SumTotals(CountsOf(city))
           = Cardinality({i \in Rows(merged_df) :
               /\ merged_df[i].customer_city = city
               /\ merged_df[i].product_category_name_english # NaN})

\* C3 witness: a city has counted categories and also line items without
\* an english category
C3_Witness ==
  /\ status = "ok"
  /\ \E city \in CountedCities : UnlabelledRows(city) # {}

\* C4: the total_orders of top_10_data never increase from one row to the
\* next.
C4_TotalsNonIncreasing ==
  status = "ok" =>
    \A i \in Rows(top_10_data) :
      i > 1 => top_10_data[i - 1].total_orders >= top_10_data[i].total_orders

\* C4 witness: the output holds rows of different totals
C4_Witness ==
  /\ status = "ok"
  /\ Len(top_10_data) > 1
  /\ top_10_data[1].total_orders > top_10_data[Len(top_10_data)].total_orders

\* C5: when the date range selects no order, the run still reaches its
\* end and the aggregation is empty, whatever the other tables hold.
C5_NoOrdersNoOutput ==
  (Len(selected_dates) = 2 /\ filtered_orders = <<>>) =>
    /\ status = "ok"
    /\ city_category_counts = <<>>
    /\ top_category_per_city = <<>>
    /\ top_10_data = <<>>

\* C5 witness: a run over a date range without orders, with line items,
\* products, translations and customers present
C5_Witness ==
  /\ status = "ok"
  /\ filtered_orders = <<>>
  /\ orders_items_df # <<>>
  /\ Len(merged_df) = Len(orders_items_df)

C7_AverageGuarded ==
  status = "ok" =>
    /\ total_orders = Len(filtered_orders)
    /\ total_cities = Cardinality({city \in AllCities :
         \E o \in Rows(filtered_orders), c \in Rows(customers_df) :
           /\ customers_df[c].customer_id = filtered_orders[o].customer_id
           /\ customers_df[c].customer_city = city})
    /\ avg_orders_per_city.den > 0
    /\ total_cities > 0 =>
         avg_orders_per_city.num * total_cities
           = total_orders * avg_orders_per_city.den
    /\ total_cities = 0 => avg_orders_per_city.num = 0

\* C7 witness: orders are selected but none of their customers resolves
\* to a city
C7_Witness ==
  /\ status = "ok"
  /\ total_orders > 0
  /\ total_cities = 0

\* C8 as stated: among the categories that tie for the maximum of a city,
\* the reported one is the one whose first line item comes first in the
\* join order.
C8_TieBrokenByJoinOrder ==
  status = "ok" =>
    \A i \in Rows(top_10_data) :
      \A g \in Tied(top_10_data[i]) :
        FirstLine(top_10_data[i].customer_city,
                  top_10_data[i].product_category_name_english)
          <= FirstLine(top_10_data[i].customer_city,
                       city_category_counts[g].product_category_name_english)

\* C8 as amended: the reported row of a city is the first row of that city
\* after the sort by (city ascending, count descending), and among the
\* categories that tie for the maximum this is the one whose label sorts
\* first, wherever its line items stand in the join order.
C8_TieBrokenByLabel ==
  status = "ok" =>
    \A i \in Rows(top_10_data) :
      /\ LET sorted == SortCityTotal(city_category_counts)
             first  == CHOOSE k \in Rows(sorted) :
                         /\ sorted[k].customer_city = top_10_data[i].customer_city
                         /\ \A j \in Rows(sorted) :
                              sorted[j].customer_city
                                = top_10_data[i].customer_city => k <= j
         IN top_10_data[i] = sorted[first]
      /\ \A g \in Tied(top_10_data[i]) :
           top_10_data[i].product_category_name_english
             <= city_category_counts[g].product_category_name_english

\* C8 witness: two categories tie for the maximum of an output city and
\* the one reported is not the one that comes first in the join order
C8_Witness ==
  /\ status = "ok"
  /\ \E i \in Rows(top_10_data) :
       \E g \in Tied(top_10_data[i]) :
         FirstLine(top_10_data[i].customer_city,
                   city_category_counts[g].product_category_name_english)
           < FirstLine(top_10_data[i].customer_city,
                       top_10_data[i].product_category_name_english)

\* C9: before the winners are selected, the count of a (city, category)
\* pair is the number of line items (several of one order counted several
\* times) whose order lies in the selected date range, whose customer
\* lives in that city and whose product has that english category; a pair
\* without such a line item has no count row, so that line items of
\* orders outside the range or without a city are counted nowhere.
C9_CountsAreLineItems ==
  status = "ok" =>
    /\ \A g \in Rows(city_category_counts) :
         /\ city_category_counts[g].customer_city \in AllCities
         /\ city_category_counts[g].product_category_name_english \in AllLabels
    /\ \A city \in AllCities, cat \in AllLabels :
         LET n == Cardinality({i \in Rows(orders_items_df) :
                                 Contributes(i, city, cat)})
             rows == {g \in CountsOf(city) :
                        city_category_counts[g].product_category_name_english
                          = cat}
         IN IF n = 0 THEN rows = {}
            ELSE /\ Cardinality(rows) = 1
                 /\ \A g \in rows : city_category_counts[g].total_orders = n

\* C9 witness: one order contributes two line items to the same count,
\* while line items of an order outside the range, of an order whose
\* customer has no city and of an unknown order are present
C9_Witness ==
  /\ status = "ok"
  /\ \E g \in Rows(city_category_counts) :
       /\ city_category_counts[g].total_orders >= 2
       /\ \E i, j \in Rows(orders_items_df) :
            /\ i < j
            /\ orders_items_df[i] = orders_items_df[j]
            /\ Contributes(i, city_category_counts[g].customer_city,
                 city_category_counts[g].product_category_name_english)
  /\ \E i \in Rows(merged_df) : merged_df[i].customer_city = NaN
  /\ Len(filtered_orders) < Len(orders_df)

\* C10: top_10_data has min(10, number of counted cities) rows, and no
\* city left out has a category count strictly greater than the
\* total_orders of a city that is in.
C10_TopTenOfRanking ==
  status = "ok" =>
    /\ Len(top_10_data) = Min(10, Cardinality(CountedCities))
    /\ OutputCities \subseteq CountedCities
    /\ \A city \in CountedCities \ OutputCities :
         \A g \in CountsOf(city), i \in Rows(top_10_data) :
           city_category_counts[g].total_orders <= top_10_data[i].total_orders

\* C10 witness: a counted city is left out of the output and the output
\* holds a city with a greater count than another
C10_Witness ==
  /\ status = "ok"
  /\ CountedCities \ OutputCities # {}
  /\ \E i, j \in Rows(top_10_data) :
       top_10_data[i].total_orders > top_10_data[j].total_orders

====
